---- MODULE Spec2Model ----
(***************************************************************************)
(* The collections of crates/collections/src/maps as state machines:       *)
(* PagedSlotMap (slotmap.rs) with MapInsert, Clone, PartialEq and serde,   *)
(* SparseSet (sparseset.rs) with serde, VecMap (vecmap.rs) and GenIndexMap *)
(* (genindexmap.rs); the handles of crates/genindex/src: the GenIndex      *)
(* trait (genindex.rs) with IndexPair (pair.rs), IndexU64 (indexu64.rs),   *)
(* IndexF64 (indexf64.rs) and NewTypeIndex (newtype.rs); and AnyMap of     *)
(* crates/adts/src/maps (anymap.rs).                                       *)
(* Position i of a vector of the source is element i + 1 of the sequence.  *)
(***************************************************************************)
EXTENDS Integers, Sequences, FiniteSets, TLC

\* ---------------------------------------------------------------- bounds
MaxSlots == 3          \* push does not grow indices beyond this many slots
N == 2                 \* page size (the const generic N)
MaxGeneration == 2     \* G::max_value() of the handle's generation type
NumValues == 2         \* values pushed are 1..NumValues
UsizeBits == 4         \* width of usize in the model
MaxFree == 4           \* cap on free_list_size
MaxCalls == 8          \* calls made on one map
NarrowIndexMax == 1    \* largest value of a narrow index type, fewer values than MaxSlots
MaxKey == 2            \* largest raw index of a handle inserted into a SparseSet
U32Bits == 2           \* width of u32 in the packed handles (32 in the source)
SafeGenerationBits == 1 \* generation bits of IndexF64 (21 in the source)
MaxPairCalls == 5      \* calls made on a SparseSet and a GenIndexMap side by side
MaxRequest == 3        \* longest type list given to AnyMap::multi_get_mut

VARIABLES
    indices,           \* Vec<I>: sequence of [index, generation]
    values,            \* Vec<Box<[MaybeUninit<T>; N]>>: sequence of pages
    free_list_head,
    free_list_tail,
    free_list_size,
    crashed,           \* "no", "panic" (unwinding panic) or "abort" (memory fault)
    last,              \* the last call made on the map and what it returned
    live,              \* client view: handle -> value last written, 0 when not held
    removed,           \* client view: handles for which remove returned Some
    deadGen,           \* client view: position -> generation at its last removal
    fifo,              \* client view: positions freed by remove since the free list was empty
    fifoOk,            \* the free list holds only positions freed by remove
    iter,              \* the iterator borrowed from the map, NoIter when there is none
    calls,             \* number of calls made so far
    tparams,           \* the collection constructed and its index type
    sparse,            \* SparseSet: Vec<usize>
    entries,           \* SparseSet: Vec<(I, T)>, sequence of [h, v]
    hpair,             \* the two handles built last, [a, b], b the later one
    vecmap,            \* VecMap: [items, len], items a sequence of Option<T>
    gimap,             \* GenIndexMap.map: a VecMap<(I, T)>, [items, len]
    glast,             \* the last call made on the GenIndexMap and what it returned
    anymap,            \* AnyMap: type -> value stored for it, 0 when there is none
    cleared            \* client view: handles held when clear was called

clientvars == <<live, removed, deadGen, fifo, fifoOk>>

mapvars == <<indices, values, free_list_head, free_list_tail, free_list_size>>

setvars == <<sparse, entries>>

genvars == <<gimap, glast, anymap, cleared>>
restvars == <<hpair, vecmap, gimap, glast, anymap, cleared>>

vars == <<indices, values, free_list_head, free_list_tail, free_list_size,
          crashed, last, live, removed, deadGen, fifo, fifoOk, iter, calls,
          tparams, sparse, entries, hpair, vecmap, gimap, glast, anymap, cleared>>

\* ---------------------------------------------------------------- usize
UsizeMod == 2 ^ UsizeBits

wrapping_sub(a, b) == (a - b + UsizeMod) % UsizeMod

wrapping_add(a, b) == (a + b) % UsizeMod

\* largest value of the index type of the default handle, IndexPair<usize, usize>
IndexMax == UsizeMod - 1

\* ---------------------------------------------------------------- GenIndex
from_raw_parts(index, generation) == [index |-> index, generation |-> generation]

from_index(index) == from_raw_parts(index, 1)

null == from_raw_parts(0, 0)

\* a generation that wraps to zero, the generation of the null handle
next_generation_to_zero(x) ==
    from_raw_parts(x.index,
                   IF x.generation = MaxGeneration THEN 0 ELSE x.generation + 1)

next_generation(x) ==
    from_raw_parts(x.index,
                   IF x.generation = MaxGeneration THEN 1 ELSE x.generation + 1)

\* ---------------------------------------------------------------- storage
Uninit == 0            \* a MaybeUninit cell holding no initialized value

Values == 1 .. NumValues

new_page == [k \in 1 .. N |-> Uninit]

InPages(vs, idx) == idx \div N < Len(vs)

get_value_unchecked(vs, idx) == vs[(idx \div N) + 1][(idx % N) + 1]

write_value(vs, idx, v) ==
    [vs EXCEPT ![(idx \div N) + 1] = [@ EXCEPT ![(idx % N) + 1] = v]]

At(ix, idx) == ix[idx + 1]

SetAt(ix, idx, x) == [ix EXCEPT ![idx + 1] = x]

usize_eq(lhs, rhs) == lhs = rhs

\* Option<T>
None == [some |-> FALSE, val |-> 0]

Some(v) == [some |-> TRUE, val |-> v]

\* the generic parameters of the collection: which collection it is and the
\* largest value its I::Index can hold
PagedSlotMapOf(index_max) == [coll |-> "PagedSlotMap", index_max |-> index_max]

SparseSetOf(index_max) == [coll |-> "SparseSet", index_max |-> index_max]

\* usize to I::Index keeping the low part of a value that does not fit
into_index_truncating(i) == Some(i % (tparams.index_max + 1))

\* usize to I::Index; None is the failed conversion that expect() turns into
\* a panic
into_index(i) == IF i <= tparams.index_max THEN Some(i) ELSE None

\* ---------------------------------------------------------------- handles
Positions == 0 .. (MaxSlots - 1)

Generations == 1 .. MaxGeneration

Handles == {from_raw_parts(i, g) : i \in Positions, g \in Generations}

\* keys a caller may present: every issued shape and one out-of-range index
Keys == {from_raw_parts(i, g) : i \in 0 .. MaxSlots, g \in Generations}

H(h) == <<h.index, h.generation>>

HKeys == {H(h) : h \in Handles}

\* ---------------------------------------------------------------- queries
len_checked == Len(indices) >= free_list_size

len == wrapping_sub(Len(indices), free_list_size)

get(key) ==
    LET idx == key.index IN
    IF idx < Len(indices) /\ At(indices, idx) = key
    THEN Some(get_value_unchecked(values, idx))
    ELSE None

get_mut_by_position(key) ==
    LET idx == key.index IN
    IF idx < Len(indices) THEN Some(get_value_unchecked(values, idx)) ELSE None

get_mut(key) ==
    LET idx == key.index IN
    IF idx < Len(indices) /\ At(indices, idx) = key
    THEN Some(get_value_unchecked(values, idx))
    ELSE None

NoIter == [kind |-> "none", front |-> 0, back |-> 0, start |-> 0, end |-> 0,
           out |-> <<>>, ended |-> FALSE, more |-> FALSE, backs |-> 0]

Running == crashed = "no" /\ calls < MaxCalls

Owned == Running /\ iter = NoIter /\ tparams.coll = "PagedSlotMap"

NoCall == [op |-> "new", key |-> null, ret |-> None, grew |-> FALSE, fcalls |-> <<>>,
           arg |-> 0]

Call(op, key, ret) == [NoCall EXCEPT !.op = op, !.key = key, !.ret = ret]

\* the types stored in an AnyMap; unit is the type ()
AnyTypes == {"unit", "u32", "i16"}

\* Default::default() of the handle type built, zero for a collection
default(tp) == IF tp.coll = "IndexPair" THEN null ELSE 0

New(tp) ==
    /\ tparams = tp
    /\ sparse = <<>>
    /\ entries = <<>>
    /\ indices = <<>>
    /\ values = <<>>
    /\ free_list_head = 0
    /\ free_list_tail = 0
    /\ free_list_size = 0
    /\ crashed = "no"
    /\ last = NoCall
    /\ live = [h \in HKeys |-> 0]
    /\ removed = {}
    /\ deadGen = [p \in Positions |-> 0]
    /\ fifo = <<>>
    /\ fifoOk = TRUE
    /\ iter = NoIter
    /\ calls = 0
    /\ hpair = [a |-> default(tp), b |-> default(tp)]
    /\ vecmap = [items |-> <<>>, len |-> 0]
    /\ gimap = [items |-> <<>>, len |-> 0]
    /\ glast = NoCall
    /\ anymap = [t \in AnyTypes |-> 0]
    /\ cleared = {}

Init == New(PagedSlotMapOf(IndexMax))

\* the process dies: nothing of the map is observable afterwards
Die(how, op, key) ==
    /\ crashed' = how
    /\ last' = Call(op, key, None)
    /\ UNCHANGED <<mapvars, clientvars, iter>>

\* ---------------------------------------------------------------- client view
\* what a caller that records every handle it was given knows after a call
Issue(h, value) ==
    IF H(h) \in HKeys
    THEN /\ live' = [live EXCEPT ![H(h)] = value]
         /\ removed' = removed \ {h}
         /\ deadGen' = [deadGen EXCEPT ![h.index] = 0]
    ELSE UNCHANGED <<live, removed, deadGen>>

Track(size1, popped, freed, batch) ==
    /\ fifo' = IF size1 = 0 THEN <<>>
               ELSE IF ~fifoOk \/ batch THEN fifo
               ELSE IF popped /\ fifo # <<>> THEN Tail(fifo)
               ELSE IF freed # <<>> THEN fifo \o freed
               ELSE fifo
    /\ fifoOk' = IF size1 = 0 THEN TRUE ELSE (fifoOk /\ ~batch)

\* ---------------------------------------------------------------- push
PushGrow(value) ==
    LET idx == Len(indices)
        values1 == IF Len(values) * N <= idx THEN Append(values, new_page) ELSE values
        index == from_index(into_index(idx).val)
    IN  /\ free_list_size = 0
        /\ idx < MaxSlots
        /\ into_index(idx).some
        /\ indices' = Append(indices, index)
        /\ values' = write_value(values1, idx, value)
        /\ UNCHANGED <<free_list_head, free_list_tail, free_list_size, crashed>>
        /\ last' = [Call("push", index, Some(value)) EXCEPT !.grew = TRUE]
        /\ Issue(index, value)
        /\ Track(0, FALSE, <<>>, FALSE)

PushReuse(value) ==
    LET idx == free_list_head
        old == At(indices, idx)
        index == from_raw_parts(idx, next_generation(old).generation)
    IN  /\ free_list_size > 0
        /\ idx < Len(indices)
        /\ free_list_head' = old.index
        /\ free_list_size' = free_list_size - 1
        /\ indices' = SetAt(indices, idx, index)
        /\ values' = write_value(values, idx, value)
        /\ UNCHANGED <<free_list_tail, crashed>>
        /\ last' = Call("push", index, Some(value))
        /\ Issue(index, value)
        /\ Track(free_list_size - 1, TRUE, <<>>, FALSE)

\* free_list_head is not a position of indices: get_unchecked_mut reads and
\* writes past the end of the vector.  The process faults, or it goes on with
\* whatever the memory there held and the write to it is never seen again.
PushReuseOutOfBounds(value) ==
    LET idx == free_list_head IN
    /\ free_list_size > 0
    /\ idx >= Len(indices)
    /\ \/ Die("abort", "push", null)
       \/ \E gi \in 0 .. MaxSlots, gg \in Generations :
            LET index == from_raw_parts(idx, next_generation(from_raw_parts(gi, gg)).generation)
            IN  /\ free_list_head' = gi
                /\ free_list_size' = free_list_size - 1
                /\ values' = IF InPages(values, idx) THEN write_value(values, idx, value)
                             ELSE values
                /\ UNCHANGED <<indices, free_list_tail, crashed>>
                /\ last' = Call("push", index, Some(value))
                /\ Issue(index, value)
                /\ Track(free_list_size - 1, TRUE, <<>>, FALSE)

\* the position of the new slot does not fit the index type: into_index
\* panics, after the page for the slot has been added
PushOverflow ==
    LET idx == Len(indices) IN
    /\ free_list_size = 0
    /\ ~into_index(idx).some
    /\ values' = IF Len(values) * N <= idx THEN Append(values, new_page) ELSE values
    /\ crashed' = "panic"
    /\ last' = Call("push", null, None)
    /\ UNCHANGED <<indices, free_list_head, free_list_tail, free_list_size, clientvars>>

Push(value) ==
    /\ Owned
    /\ calls' = calls + 1
    /\ UNCHANGED <<iter, tparams, restvars, setvars>>
    /\ \/ PushGrow(value)
       \/ PushOverflow
       \/ PushReuse(value)
       \/ PushReuseOutOfBounds(value)

\* ---------------------------------------------------------------- free list
\* m = [indices, head, tail, size]
\* the freed position linked in front of the list instead of behind it
push_free_idx_lifo(m, idx) ==
    [indices |-> IF m.size > 0
                 THEN SetAt(m.indices, idx,
                            from_raw_parts(m.head, At(m.indices, idx).generation))
                 ELSE m.indices,
     head |-> idx,
     tail |-> IF m.size > 0 THEN m.tail ELSE idx,
     size |-> m.size + 1,
     oob |-> FALSE]

push_free_idx(m, idx) ==
    [indices |-> IF m.size > 0 /\ m.tail < Len(m.indices)
                 THEN SetAt(m.indices, m.tail,
                            from_raw_parts(idx, At(m.indices, m.tail).generation))
                 ELSE m.indices,
     head |-> IF m.size > 0 THEN m.head ELSE idx,
     tail |-> idx,
     size |-> m.size + 1,
     oob |-> m.size > 0 /\ m.tail >= Len(m.indices)]

Map == [indices |-> indices, head |-> free_list_head, tail |-> free_list_tail,
        size |-> free_list_size]

\* ---------------------------------------------------------------- remove
RemoveMiss(key) ==
    LET idx == key.index IN
    /\ ~(idx < Len(indices) /\ At(indices, idx) = key)
    /\ last' = Call("remove", key, None)
    /\ UNCHANGED <<mapvars, clientvars, crashed>>

RemoveHit(key) ==
    LET idx == key.index
        dead == from_raw_parts(IF idx = 0 THEN 1 ELSE 0, key.generation)
        m == push_free_idx([Map EXCEPT !.indices = SetAt(indices, idx, dead)], idx)
    IN  /\ idx < Len(indices) /\ At(indices, idx) = key
        /\ free_list_size < MaxFree
        /\ \/ /\ m.oob
              /\ Die("abort", "remove", key)
           \/ /\ indices' = m.indices
              /\ free_list_head' = m.head
              /\ free_list_tail' = m.tail
              /\ free_list_size' = m.size
              /\ values' = write_value(values, idx, Uninit)
              /\ last' = Call("remove", key, Some(get_value_unchecked(values, idx)))
              /\ live' = IF H(key) \in HKeys THEN [live EXCEPT ![H(key)] = 0] ELSE live
              /\ removed' = removed \union {key}
              /\ deadGen' = [deadGen EXCEPT ![idx] = key.generation]
              /\ Track(m.size, FALSE, <<idx>>, FALSE)
              /\ UNCHANGED crashed

Remove(key) ==
    /\ Owned
    /\ calls' = calls + 1
    /\ UNCHANGED <<iter, tparams, restvars, setvars>>
    /\ \/ RemoveMiss(key)
       \/ RemoveHit(key)

\* ---------------------------------------------------------------- retain
\* the predicate f: true for the handles in keep; it writes mut (when not 0)
\* through the &mut T it is given
f_keep(keep, index) == H(index) \in keep

f_write(mut, cell) == IF mut = 0 THEN cell ELSE mut

\* st = [indices, values, head, count, calls]: the loop of retain over the
\* positions i .. Len(indices) - 1 whose stored index equals the position
RECURSIVE retain_loop(_, _, _, _)
retain_loop(i, st, keep, mut) ==
    IF i >= Len(st.indices) THEN st
    ELSE LET index == At(st.indices, i) IN
         IF ~usize_eq(i, index.index) THEN retain_loop(i + 1, st, keep, mut)
         ELSE LET cell == f_write(mut, get_value_unchecked(st.values, i))
                  called == [st EXCEPT !.calls = Append(@, index)]
              IN  IF f_keep(keep, index)
                  THEN retain_loop(i + 1,
                           [called EXCEPT !.values = write_value(@, i, cell)],
                           keep, mut)
                  ELSE retain_loop(i + 1,
                           [called EXCEPT
                               !.values = write_value(@, i, Uninit),
                               !.indices = SetAt(@, i,
                                   from_raw_parts(st.head, index.generation)),
                               !.head = i,
                               !.count = @ + 1],
                           keep, mut)

LiveLooking == {H(At(indices, i)) : i \in {j \in 0 .. Len(indices) - 1 :
                                            At(indices, j).index = j}}

Range(sq) == {sq[k] : k \in 1 .. Len(sq)}

RetainFrom(len0, keep, mut) ==
    LET st == retain_loop(0, [indices |-> indices, values |-> values,
                              head |-> wrapping_add(len0, 1), count |-> 0,
                              calls |-> <<>>], keep, mut)
        m == IF st.count > 0
             THEN push_free_idx([Map EXCEPT !.indices = st.indices], st.head)
             ELSE [Map EXCEPT !.indices = st.indices] @@ [oob |-> FALSE]
        size1 == IF st.count > 0 THEN m.size + st.count - 1 ELSE m.size
        dropped == {h \in Range(st.calls) : ~f_keep(keep, h)}
    IN  /\ size1 <= MaxFree
        /\ \/ /\ st.count > 0
              /\ ~into_index(wrapping_add(len0, 1)).some
              /\ Die("panic", "retain", null)
           \/ /\ st.count > 0 => into_index(wrapping_add(len0, 1)).some
              /\ m.oob
              /\ Die("abort", "retain", null)
           \/ /\ st.count > 0 => into_index(wrapping_add(len0, 1)).some
              /\ indices' = m.indices
              /\ values' = st.values
              /\ free_list_head' = m.head
              /\ free_list_tail' = m.tail
              /\ free_list_size' = size1
              /\ last' = [Call("retain", null, None) EXCEPT !.fcalls = st.calls]
              /\ live' = [k \in HKeys |->
                            IF \E h \in dropped : H(h) = k THEN 0
                            ELSE IF live[k] # 0 /\ (\E h \in Range(st.calls) : H(h) = k)
                                 THEN f_write(mut, live[k])
                                 ELSE live[k]]
              /\ deadGen' = [p \in Positions |->
                               IF \E h \in dropped : h.index = p
                               THEN (CHOOSE h \in dropped : h.index = p).generation
                               ELSE deadGen[p]]
              /\ Track(size1, FALSE, <<>>, st.count > 0)
              /\ UNCHANGED <<crashed, removed>>

\* self.len() underflows when free_list_size exceeds indices.len(): a panic
\* with overflow checks, the wrapped difference without
Retain(keep, mut) ==
    /\ Owned
    /\ calls' = calls + 1
    /\ UNCHANGED <<iter, tparams, restvars, setvars>>
    /\ \/ /\ ~len_checked
          /\ Die("panic", "retain", null)
       \/ RetainFrom(len, keep, mut)

\* ---------------------------------------------------------------- clear
ClearMap ==
    /\ Owned
    /\ calls' = calls + 1
    /\ UNCHANGED <<iter, tparams, setvars>>
    /\ indices' = <<>>
    /\ values' = <<>>
    /\ free_list_head' = 0
    /\ free_list_tail' = 0
    /\ free_list_size' = 0
    /\ last' = Call("clear", null, None)
    /\ live' = [h \in HKeys |-> 0]
    /\ removed' = {}
    /\ deadGen' = [p \in Positions |-> 0]
    /\ fifo' = <<>>
    /\ fifoOk' = TRUE
    /\ UNCHANGED crashed

Clear == ClearMap /\ UNCHANGED restvars

\* clear by a caller that keeps the handles it holds at the call
ClearNoting ==
    /\ ClearMap
    /\ cleared' = cleared \union {from_raw_parts(k[1], k[2]) : k \in {j \in HKeys : live[j] # 0}}
    /\ UNCHANGED <<hpair, vecmap, gimap, glast, anymap>>

NextClear ==
    \/ \E value \in Values : Push(value)
    \/ \E key \in Keys : Remove(key)
    \/ ClearNoting

SpecClear == Init /\ [][NextClear]_vars

\* ---------------------------------------------------------------- iterators
\* iter() and iter_mut(): a slice iterator over indices (the positions
\* front .. back - 1 are still to come) and the counters start and end
new_iter(kind, len0) ==
    [NoIter EXCEPT !.kind = kind, !.front = 0, !.back = Len(indices),
                   !.start = 0, !.end = len0]

IterNew(kind) ==
    /\ Owned
    /\ calls' = calls + 1
    /\ UNCHANGED <<mapvars, clientvars, tparams, restvars, setvars>>
    /\ \/ /\ ~len_checked
          /\ crashed' = "panic"
          /\ last' = Call(kind, null, None)
          /\ UNCHANGED iter
       \/ /\ iter' = new_iter(kind, len)
          /\ last' = Call(kind, null, None)
          /\ UNCHANGED crashed

Yield(it, index, idx, cell) ==
    [it EXCEPT !.out = Append(@, [h |-> index, pos |-> idx, val |-> cell]),
               !.more = it.ended]

Miss(it) == [it EXCEPT !.ended = TRUE, !.more = it.ended]

\* Iter::next and IterMut::next
next_step(it) ==
    IF it.front < it.back
    THEN LET index == At(indices, it.front)
             idx == it.start
             it1 == [it EXCEPT !.front = @ + 1, !.start = @ + 1]
         IN  IF usize_eq(idx, index.index)
             THEN Yield(it1, index, idx, get_value_unchecked(values, idx))
             ELSE Miss(it1)
    ELSE Miss(it)

IterNext ==
    /\ Running
    /\ iter # NoIter
    /\ calls' = calls + 1
    /\ iter' = next_step(iter)
    /\ last' = IF Len(iter'.out) > Len(iter.out)
               THEN Call("next", iter'.out[Len(iter'.out)].h,
                         Some(iter'.out[Len(iter'.out)].val))
               ELSE Call("next", null, None)
    /\ UNCHANGED <<mapvars, clientvars, crashed, tparams, restvars, setvars>>

\* Iter::next_back and IterMut::next_back, with end already decremented to end1
next_back_step(it, end1) ==
    LET index == At(indices, it.back - 1)
        idx == end1
        it1 == [it EXCEPT !.back = @ - 1, !.end = end1, !.backs = 1]
    IN  IF usize_eq(idx, index.index)
        THEN Yield(it1, index, idx,
                   IF InPages(values, idx) THEN get_value_unchecked(values, idx)
                   ELSE Uninit)
        ELSE Miss(it1)

IterNextBack ==
    /\ Running
    /\ iter # NoIter
    /\ calls' = calls + 1
    /\ UNCHANGED <<mapvars, clientvars, tparams, restvars, setvars>>
    /\ IF iter.front < iter.back
       THEN \/ /\ iter.end = 0
               /\ crashed' = "panic"
               /\ last' = Call("next_back", null, None)
               /\ UNCHANGED iter
            \/ LET it1 == next_back_step(iter, wrapping_sub(iter.end, 1)) IN
               \/ /\ Len(it1.out) > Len(iter.out)
                  /\ ~InPages(values, it1.end)
                  /\ crashed' = "abort"
                  /\ last' = Call("next_back", null, None)
                  /\ UNCHANGED iter
               \/ /\ iter' = it1
                  /\ last' = IF Len(it1.out) > Len(iter.out)
                             THEN Call("next_back", it1.out[Len(it1.out)].h,
                                       Some(it1.out[Len(it1.out)].val))
                             ELSE Call("next_back", null, None)
                  /\ UNCHANGED crashed
       ELSE /\ iter' = [Miss(iter) EXCEPT !.backs = 1]
            /\ last' = Call("next_back", null, None)
            /\ UNCHANGED crashed

IterDrop ==
    /\ Running
    /\ iter # NoIter
    /\ iter' = NoIter
    /\ last' = Call("drop", null, None)
    /\ UNCHANGED <<mapvars, clientvars, crashed, calls, tparams, restvars, setvars>>

Next ==
    \/ \E value \in Values : Push(value)
    \/ \E key \in Keys : Remove(key)
    \/ \E keep \in SUBSET LiveLooking, mut \in 0 .. NumValues : Retain(keep, mut)
    \/ Clear
    \/ \E kind \in {"iter", "iter_mut"} : IterNew(kind)
    \/ IterNext
    \/ IterNextBack
    \/ IterDrop

Spec == Init /\ [][Next]_vars

\* The calls that change the map, with one value and a predicate that writes
\* nothing: no branch of push, remove, retain or clear reads a stored value, so
\* indices and the free list go through the same states as under Spec.
NextMap ==
    \/ Push(1)
    \/ \E key \in Keys : Remove(key)
    \/ \E keep \in SUBSET LiveLooking : Retain(keep, 0)
    \/ Clear

SpecMap == Init /\ [][NextMap]_vars

\* The same calls on a map whose index type has fewer values than the map is
\* allowed slots.
InitNarrow == New(PagedSlotMapOf(NarrowIndexMax))

SpecNarrow == InitNarrow /\ [][NextMap]_vars

\* ---------------------------------------------------------------- SparseSet
UsizeMax == UsizeMod - 1

SetKeys == {from_raw_parts(i, g) : i \in 0 .. MaxKey, g \in Generations}

\* what a cell of sparse can hold before the set has written it: set_len
\* exposes memory that was never initialized or that clear left behind
Garbage == (0 .. MaxKey) \union {UsizeMax}

\* Vec::reserve may allocate more than it is asked; the set never needs more
\* than one cell for each raw index
SparseCap == MaxKey + 1

SetOwned == Running /\ tparams.coll = "SparseSet"

Set == [sparse |-> sparse, entries |-> entries]

InitSet == New(SparseSetOf(MaxKey))

\* a lookup that finds no cell of sparse for any handle
get_sparse_dense_indices_blind(s, i) == [sparse_index |-> i.index, dense_index |-> None]

get_sparse_dense_indices(s, i) ==
    [sparse_index |-> i.index,
     dense_index |-> IF i.index < Len(s.sparse) THEN Some(s.sparse[i.index + 1])
                     ELSE None]

\* a lookup that compares the raw index only
set_get_by_index(s, i) ==
    LET d == get_sparse_dense_indices(s, i).dense_index IN
    IF d.some /\ d.val < Len(s.entries) /\ s.entries[d.val + 1].h.index = i.index
    THEN Some(s.entries[d.val + 1].v)
    ELSE None

set_get(s, i) ==
    LET d == get_sparse_dense_indices(s, i).dense_index IN
    IF d.some /\ d.val < Len(s.entries) /\ s.entries[d.val + 1].h = i
    THEN Some(s.entries[d.val + 1].v)
    ELSE None

sget(i) == set_get(Set, i)

sget_mut(i) == set_get(Set, i)

\* the vectors sparse can become when it is grown to hold position index
reserve_sparse_index(sp, index) ==
    IF index >= Len(sp)
    THEN {sp \o g : g \in UNION {[1 .. k -> Garbage] :
                                   k \in (index - Len(sp) + 1) .. (SparseCap - Len(sp))}}
    ELSE {sp}

SInsertReplace(i, v) ==
    LET d == get_sparse_dense_indices(Set, i).dense_index IN
    /\ d.some /\ d.val < Len(entries) /\ entries[d.val + 1].h.index = i.index
    /\ entries' = [entries EXCEPT ![d.val + 1].v = v]
    /\ last' = [Call("insert", i, Some(entries[d.val + 1].v)) EXCEPT !.arg = v]
    /\ UNCHANGED sparse

SInsertNew(i, v) ==
    LET sd == get_sparse_dense_indices(Set, i)
        d == sd.dense_index
    IN  /\ ~(d.some /\ d.val < Len(entries) /\ entries[d.val + 1].h.index = i.index)
        /\ \E grown \in reserve_sparse_index(sparse, sd.sparse_index) :
              sparse' = [grown EXCEPT ![sd.sparse_index + 1] = Len(entries)]
        /\ entries' = Append(entries, [h |-> i, v |-> v])
        /\ last' = [Call("insert", i, None) EXCEPT !.arg = v]

SInsert(i, v) ==
    /\ SetOwned
    /\ \/ SInsertReplace(i, v)
       \/ SInsertNew(i, v)
    /\ UNCHANGED <<mapvars, clientvars, iter, calls, crashed, tparams, restvars>>

\* Vec::remove, which shifts the entries behind p instead
shift_remove(sq, p) == SubSeq(sq, 1, p) \o SubSeq(sq, p + 2, Len(sq))

\* Vec::swap_remove
swap_remove(sq, p) ==
    LET n == Len(sq) IN
    IF p + 1 = n THEN SubSeq(sq, 1, n - 1)
    ELSE [SubSeq(sq, 1, n - 1) EXCEPT ![p + 1] = sq[n]]

\* a remove that leaves the sparse cell of the entry swapped into the hole
\* pointing at the end of the dense array
set_remove_without_fixup(s, i) ==
    LET sd == get_sparse_dense_indices(s, i)
        d == sd.dense_index
        n == Len(s.entries)
        miss == [sparse |-> s.sparse, entries |-> s.entries, ret |-> None]
    IN  IF ~d.some THEN miss
        ELSE IF ~(d.val < n) THEN miss
        ELSE IF s.entries[d.val + 1].h # i THEN miss
        ELSE [sparse |-> [s.sparse EXCEPT ![sd.sparse_index + 1] = UsizeMax],
              entries |-> swap_remove(s.entries, d.val),
              ret |-> Some(s.entries[d.val + 1].v)]

\* remove as a function of the set: the set afterwards and the result
set_remove(s, i) ==
    LET sd == get_sparse_dense_indices(s, i)
        d == sd.dense_index
        n == Len(s.entries)
        miss == [sparse |-> s.sparse, entries |-> s.entries, ret |-> None]
    IN  IF ~d.some THEN miss
        ELSE IF ~(d.val < n) THEN miss
        ELSE IF s.entries[d.val + 1].h # i THEN miss
        ELSE LET swapped_index == s.entries[n].h.index IN
             IF d.val < n - 1 /\ swapped_index >= Len(s.sparse) THEN miss
             ELSE LET sp1 == IF d.val < n - 1
                             THEN [s.sparse EXCEPT ![swapped_index + 1] = d.val]
                             ELSE s.sparse
                  IN  [sparse |-> [sp1 EXCEPT ![sd.sparse_index + 1] = UsizeMax],
                       entries |-> swap_remove(s.entries, d.val),
                       ret |-> Some(s.entries[d.val + 1].v)]

SRemove(i) ==
    LET r == set_remove(Set, i) IN
    /\ SetOwned
    /\ sparse' = r.sparse
    /\ entries' = r.entries
    /\ last' = Call("remove", i, r.ret)
    /\ UNCHANGED <<mapvars, clientvars, iter, calls, crashed, tparams, restvars>>

\* a loop that moves on to position i + 1 after a removal as well
RECURSIVE set_retain_loop_advancing(_, _, _, _)
set_retain_loop_advancing(i, s, keep, mut) ==
    IF i >= Len(s.entries) THEN s
    ELSE LET e == s.entries[i + 1]
             s1 == [s EXCEPT !.entries[i + 1].v = f_write(mut, e.v),
                             !.calls = Append(@, e.h)]
         IN  IF f_keep(keep, e.h)
             THEN set_retain_loop_advancing(i + 1, s1, keep, mut)
             ELSE LET r == set_remove(s1, e.h) IN
                  set_retain_loop_advancing(i + 1, [s1 EXCEPT !.sparse = r.sparse,
                                                              !.entries = r.entries],
                                            keep, mut)

\* the loop of retain from dense position i; calls are the handles f has been
\* called with; hung is set when remove fails for the entry at i, which the
\* loop then visits again for ever
RECURSIVE set_retain_loop(_, _, _, _)
set_retain_loop(i, s, keep, mut) ==
    IF i >= Len(s.entries) THEN s
    ELSE LET e == s.entries[i + 1]
             s1 == [s EXCEPT !.entries[i + 1].v = f_write(mut, e.v),
                             !.calls = Append(@, e.h)]
         IN  IF f_keep(keep, e.h)
             THEN set_retain_loop(i + 1, s1, keep, mut)
             ELSE LET r == set_remove(s1, e.h) IN
                  IF r.ret.some
                  THEN set_retain_loop(i, [s1 EXCEPT !.sparse = r.sparse,
                                                      !.entries = r.entries],
                                       keep, mut)
                  ELSE [s1 EXCEPT !.hung = TRUE]

EntryKeys == {H(entries[p].h) : p \in 1 .. Len(entries)}

SRetain(keep, mut) ==
    LET s == set_retain_loop(0, Set @@ [hung |-> FALSE, calls |-> <<>>], keep, mut) IN
    /\ SetOwned
    /\ sparse' = s.sparse
    /\ entries' = s.entries
    /\ crashed' = IF s.hung THEN "hang" ELSE crashed
    /\ last' = [Call("retain", null, None) EXCEPT !.fcalls = s.calls]
    /\ UNCHANGED <<mapvars, clientvars, iter, calls, tparams, restvars>>

\* the comparators given to sort_by: by value, or by raw index
sort_key(compare, e) == IF compare = "value" THEN e.v ELSE e.h.index

\* e put in front of the entries that compare equal to it
unstable_insert(sq, e, compare) ==
    LET p == Cardinality({k \in 1 .. Len(sq) :
                            sort_key(compare, sq[k]) < sort_key(compare, e)})
    IN  SubSeq(sq, 1, p) \o <<e>> \o SubSeq(sq, p + 1, Len(sq))

\* slice::sort_by is stable: e goes behind the entries that do not compare greater
stable_insert(sq, e, compare) ==
    LET p == Cardinality({k \in 1 .. Len(sq) :
                            sort_key(compare, sq[k]) <= sort_key(compare, e)})
    IN  SubSeq(sq, 1, p) \o <<e>> \o SubSeq(sq, p + 1, Len(sq))

RECURSIVE stable_sort(_, _)
stable_sort(sq, compare) ==
    IF sq = <<>> THEN <<>>
    ELSE stable_insert(stable_sort(SubSeq(sq, 1, Len(sq) - 1), compare),
                       sq[Len(sq)], compare)

\* sparse left as it was before the sort
fix_sparse_skipped(sp, en, p) == sp

\* "Fix sparse array": entry p, p + 1, ... written to sparse in that order
RECURSIVE fix_sparse(_, _, _)
fix_sparse(sp, en, p) ==
    IF p >= Len(en) THEN sp
    ELSE LET sparse_index == en[p + 1].h.index IN
         fix_sparse(IF sparse_index < Len(sp)
                    THEN [sp EXCEPT ![sparse_index + 1] = p] ELSE sp,
                    en, p + 1)

SSortBy(compare) ==
    LET sorted == stable_sort(entries, compare) IN
    /\ SetOwned
    /\ entries' = sorted
    /\ sparse' = fix_sparse(sparse, sorted, 0)
    /\ last' = Call("sort_by", null, None)
    /\ UNCHANGED <<mapvars, clientvars, iter, calls, crashed, tparams, restvars>>

SClear ==
    /\ SetOwned
    /\ sparse' = <<>>
    /\ entries' = <<>>
    /\ last' = Call("clear", null, None)
    /\ UNCHANGED <<mapvars, clientvars, iter, calls, crashed, tparams, restvars>>

NextSet ==
    \/ \E i \in SetKeys, v \in Values : SInsert(i, v)
    \/ \E i \in SetKeys : SRemove(i)
    \/ \E keep \in SUBSET EntryKeys, mut \in 0 .. NumValues : SRetain(keep, mut)
    \/ \E compare \in {"value", "index"} : SSortBy(compare)
    \/ SClear

SpecSet == InitSet /\ [][NextSet]_vars

\* ---------------------------------------------------------------- Index, IndexMut
\* Option::expect: the value, or a panic with "invalid index"
Expect(op, key, opt) ==
    IF opt.some
    THEN last' = Call(op, key, opt) /\ UNCHANGED crashed
    ELSE last' = Call(op, key, None) /\ crashed' = "panic"

\* a filter that looks at the position of the handle only
index_filter_position(index) == index.index < Len(indices)

\* the filter of Index and IndexMut for PagedSlotMap
index_filter(index) ==
    index.index < Len(indices) /\ At(indices, index.index) = index

\* map[index] and &mut map[index] of PagedSlotMap (op is "index" or "index_mut")
SlotIndex(op, index) ==
    /\ Owned
    /\ calls' = calls + 1
    /\ Expect(op, index, IF index_filter(index)
                         THEN Some(get_value_unchecked(values, index.index))
                         ELSE None)
    /\ UNCHANGED <<mapvars, clientvars, iter, tparams, restvars, setvars>>

\* set[index] and &mut set[index] of SparseSet
SetIndex(op, index) ==
    /\ SetOwned
    /\ Expect(op, index, IF op = "index" THEN sget(index) ELSE sget_mut(index))
    /\ UNCHANGED <<mapvars, clientvars, iter, calls, tparams, restvars, setvars>>

IndexOps == {"index", "index_mut"}

\* Either collection, with the strict indexing operators among its calls.
InitStrict == New(PagedSlotMapOf(IndexMax)) \/ New(SparseSetOf(MaxKey))

NextStrict ==
    \/ Push(1)
    \/ \E key \in Keys : Remove(key)
    \/ \E keep \in SUBSET LiveLooking : Retain(keep, 0)
    \/ Clear
    \/ \E op \in IndexOps, key \in Keys : SlotIndex(op, key)
    \/ \E i \in SetKeys, v \in Values : SInsert(i, v)
    \/ \E i \in SetKeys : SRemove(i)
    \/ \E keep \in SUBSET EntryKeys : SRetain(keep, 0)
    \/ \E compare \in {"value", "index"} : SSortBy(compare)
    \/ SClear
    \/ \E op \in IndexOps, i \in SetKeys : SetIndex(op, i)

SpecStrict == InitStrict /\ [][NextStrict]_vars

\* ---------------------------------------------------------------- properties
\* no call has panicked or faulted
Alive == crashed = "no"

HandleOf(k) == from_raw_parts(k[1], k[2])

Held == {k \in HKeys : live[k] # 0}

SlotLive(i) == \E k \in Held : k[1] = i

DeadSlots == {i \in 0 .. Len(indices) - 1 : ~SlotLive(i)}

Validates(key) == key.index < Len(indices) /\ At(indices, key.index) = key

\* C1: once remove(h) has returned Some, get(&h), get_mut(&h) and remove(&h)
\* return None in every later state, until the slot has gone through
\* max_generation reuses and h is issued again.
C1_StaleHandleRejected ==
    Alive => \A h \in removed :
        ~get(h).some /\ ~get_mut(h).some /\ ~Validates(h)

\* C2: every handle push returned that has not been removed since still
\* satisfies get(&h) == Some(v), v the value last written for it.
C2_LiveHandleReadable ==
    Alive => \A k \in Held : get(HandleOf(k)) = Some(live[k])

\* C3: indices[i].index() == i if and only if slot i holds a live value.
C3_LiveIffOwnIndex ==
    Alive => \A i \in 0 .. Len(indices) - 1 :
        (At(indices, i).index = i) <=> SlotLive(i)

\* the positions visited from p by following the index field k - 1 times;
\* a position outside indices ends the walk with the marker -1
RECURSIVE free_walk(_, _)
free_walk(p, k) ==
    IF k = 0 THEN <<>>
    ELSE IF p >= Len(indices) THEN <<-1>>
    ELSE <<p>> \o free_walk(At(indices, p).index, k - 1)

\* C4: with free_list_size > 0, the walk of free_list_size positions from
\* free_list_head visits every dead slot exactly once, no live slot, and ends
\* at free_list_tail; free_list_size is the number of dead slots.
C4_FreeListWellFormed ==
    Alive =>
        /\ free_list_size = Cardinality(DeadSlots)
        /\ free_list_size > 0 =>
             LET w == free_walk(free_list_head, free_list_size) IN
             /\ Len(w) = free_list_size
             /\ Range(w) = DeadSlots
             /\ w[Len(w)] = free_list_tail

\* C5: positions freed by remove, starting from an empty free list, are handed
\* out again by push oldest first, and such a push allocates no slot and no page.
C5_ReuseIsFifo ==
    [][(last'.op = "push" /\ crashed' = "no" /\ fifoOk /\ fifo # <<>>) =>
          /\ last'.key.index = Head(fifo)
          /\ Len(indices') = Len(indices)
          /\ Len(values') = Len(values)]_vars

C5_Witness ==
    /\ last.op = "push" /\ ~last.grew /\ crashed = "no"
    /\ fifoOk /\ fifo # <<>>
    /\ last.key.index > Head(fifo)

\* C6: push returns (number of slots, 1) when the free list is empty, and
\* otherwise the free-list head with the generation after the one the slot
\* had when it was removed.
C6_PushHandle ==
    [][(last'.op = "push" /\ crashed' = "no") =>
          IF free_list_size = 0
          THEN last'.key = from_raw_parts(Len(indices), 1)
          ELSE /\ last'.key.index = free_list_head
               /\ free_list_head \in Positions
               /\ deadGen[free_list_head] # 0
               /\ last'.key.generation =
                    next_generation(from_raw_parts(free_list_head,
                                                   deadGen[free_list_head])).generation]_vars

OutPairs(it) == {<<it.out[k].h, it.out[k].val>> : k \in 1 .. Len(it.out)}

HeldPairs == {<<HandleOf(k), live[k]>> : k \in Held}

Ascending(it) == \A a, b \in 1 .. Len(it.out) : a < b => it.out[a].pos < it.out[b].pos

Descending(it) == \A a, b \in 1 .. Len(it.out) : a < b => it.out[a].pos > it.out[b].pos

\* C7: a forward traversal that has just reached its first None has yielded
\* one pair for every live slot, in ascending index order.
C7_ForwardYieldsAllLive ==
    (Alive /\ iter # NoIter /\ iter.backs = 0 /\ iter.ended /\ ~iter.more) =>
        /\ OutPairs(iter) = HeldPairs
        /\ Len(iter.out) = Cardinality(Held)
        /\ Ascending(iter)

OnlyBack(it) == it.start = 0 /\ it.backs = 1

\* C8: a reverse traversal that has just reached its first None has yielded
\* one pair for every live slot, in descending index order, each handle
\* satisfying get(&h) == Some(value).
C8_ReverseYieldsAllLive ==
    (Alive /\ iter # NoIter /\ OnlyBack(iter) /\ iter.ended /\ ~iter.more) =>
        /\ OutPairs(iter) = HeldPairs
        /\ Len(iter.out) = Cardinality(Held)
        /\ Descending(iter)
        /\ \A k \in 1 .. Len(iter.out) : get(iter.out[k].h) = Some(iter.out[k].val)

\* C9: one IterMut yields each storage position at most once, and only live
\* positions, whatever the interleaving of next() and next_back().
C9_IterMutNoAlias ==
    (Alive /\ iter.kind = "iter_mut") =>
        /\ \A a, b \in 1 .. Len(iter.out) : a # b => iter.out[a].pos # iter.out[b].pos
        /\ \A a \in 1 .. Len(iter.out) : SlotLive(iter.out[a].pos)

\* C10: retain calls f once for each live slot; afterwards get(&h) is Some for
\* exactly the previously live handles f kept, with the value f left, None for
\* those f rejected, and len() has decreased by the number rejected.
C10_RetainKeepsExactly ==
    [][(last'.op = "retain" /\ crashed' = "no") =>
          LET gone == {k \in Held : live'[k] = 0} IN
          /\ {H(h) : h \in Range(last'.fcalls)} = Held
          /\ Len(last'.fcalls) = Cardinality(Held)
          /\ \A k \in Held \ gone : get(HandleOf(k))' = Some(live'[k])
          /\ \A k \in gone : get(HandleOf(k))' = None
          /\ len' = len - Cardinality(gone)]_vars

\* C11: len() is the number of handles pushed and not removed since, after any
\* sequence of push, remove, retain and clear; a forward traversal that has
\* just reached its first None has yielded len() pairs.
C11_LenCountsLive ==
    Alive =>
        /\ len_checked
        /\ len = Cardinality(Held)
        /\ (iter # NoIter /\ iter.backs = 0 /\ iter.ended /\ ~iter.more) =>
              Len(iter.out) = len

\* what the caller knows makes key invalid: no such slot, another generation
\* stored in the slot, or the slot's value removed
Invalid(key) ==
    \/ key.index >= Len(indices)
    \/ At(indices, key.index).generation # key.generation
    \/ ~SlotLive(key.index)

\* C12: get, get_mut and remove on an invalid handle return None and remove
\* then leaves indices, values and the free list as they were; a successful
\* remove(h) returns the stored value and remove(h) repeated at once is None.
C12_InvalidHandlePolicy ==
    [][crashed' = "no" =>
          /\ \A key \in Keys :
                Invalid(key)' => (get(key)' = None /\ get_mut(key)' = None)
          /\ (last'.op = "remove" /\ Invalid(last'.key)) =>
                (last'.ret = None /\ UNCHANGED mapvars)
          /\ (last'.op = "remove" /\ last'.ret.some) =>
                /\ last'.ret = Some(live[H(last'.key)])
                /\ \A key \in Keys : key = last'.key => ~Validates(key)']_vars

\* C13: push is the only call that panics: get, get_mut, remove, retain, clear
\* and the iterators never do, whatever the width of the index type and also
\* when the map is as long as the index type's maximum.
C13_OnlyPushPanics == crashed = "panic" => last.op = "push"

\* C14: with an empty free list and a slot count the index type cannot hold,
\* push panics and returns no handle; a push that returns has written the
\* value at the position its handle's index names, the position the code
\* chose, and that index fits the index type without truncation.
C14_PushOverflowPanics ==
    [][last'.op = "push" =>
          LET idx == IF free_list_size = 0 THEN Len(indices) ELSE free_list_head IN
          /\ (free_list_size = 0 /\ Len(indices) > tparams.index_max) =>
                (crashed' = "panic" /\ last'.key = null /\ UNCHANGED indices)
          /\ crashed' = "no" =>
                /\ last'.key.index = idx
                /\ last'.key.index <= tparams.index_max
                /\ InPages(values', idx) =>
                      Some(get_value_unchecked(values', idx)) = last'.ret]_vars

C14_Witness == last.op = "push" /\ crashed = "panic" /\ free_list_size = 0

\* C16: after any sequence of insert, remove, retain and sort_by (and clear)
\* from new(), the entry at every dense position p has sparse[h.index()] == p,
\* and no two entries have the same raw index.
C16_SparsePointsAtEntry ==
    /\ \A p \in 0 .. Len(entries) - 1 :
          LET h == entries[p + 1].h IN
          h.index < Len(sparse) /\ sparse[h.index + 1] = p
    /\ \A p, q \in 1 .. Len(entries) :
          p # q => entries[p].h.index # entries[q].h.index

C16_Witness ==
    /\ Len(entries) = 2
    /\ last.op = "sort_by"
    /\ entries[1].h.index > entries[2].h.index
    /\ \E k \in 1 .. Len(sparse) : sparse[k] = UsizeMax

\* C17: a successful remove of the entry at dense position p of n entries
\* leaves n - 1 entries; for p < n - 1 the formerly last entry is at p with
\* its sparse cell set to p; every other entry keeps its position; the removed
\* handle's sparse cell is usize::MAX.
C17_SwapRemove ==
    [][(last'.op = "remove" /\ last'.ret.some) =>
          LET i == last'.key
              p == sparse[i.index + 1]
              n == Len(entries)
          IN  /\ entries[p + 1].h = i
              /\ Len(entries') = n - 1
              /\ sparse'[i.index + 1] = UsizeMax
              /\ p < n - 1 =>
                    /\ entries'[p + 1] = entries[n]
                    /\ sparse'[entries[n].h.index + 1] = p
              /\ \A q \in 0 .. n - 2 : q # p => entries'[q + 1] = entries[q + 1]
              /\ \A k \in 1 .. Len(sparse) :
                    (k # i.index + 1 /\ (p < n - 1 => k # entries[n].h.index + 1)) =>
                        sparse'[k] = sparse[k]
              /\ Len(sparse') = Len(sparse)]_vars

C17_Witness ==
    /\ last.op = "remove" /\ last.ret.some
    /\ Len(entries) = 2
    /\ sparse[last.key.index + 1] = UsizeMax
    /\ sparse[entries[1].h.index + 1] = 0
    /\ sparse[entries[2].h.index + 1] = 1
    /\ entries[1].h.index = MaxKey

\* C18: after insert(h, v) has returned, get(&h) == Some(&v), whether or not
\* an entry with the raw index of h (and the same or another generation) was
\* present before.
C18_InsertThenGet ==
    [][last'.op = "insert" =>
          \A h \in SetKeys : h = last'.key => sget(h)' = Some(last'.arg)]_vars

\* C15: map[h] and &mut map[h], for PagedSlotMap and for SparseSet, panic
\* exactly when get(&h) would return None, and otherwise give the value
\* get(&h) gives.
C15_StrictIndexing ==
    [][last'.op \in IndexOps =>
          \A h \in Keys \union SetKeys : h = last'.key =>
              LET g == IF tparams.coll = "PagedSlotMap" THEN get(h) ELSE sget(h) IN
              IF g = None THEN crashed' = "panic"
              ELSE crashed' = "no" /\ last'.ret = g]_vars

C15_Witness ==
    /\ tparams.coll = "PagedSlotMap"
    /\ last.op = "index_mut"
    /\ crashed = "panic"
    /\ last.key.index < Len(indices)
    /\ At(indices, last.key.index).index = last.key.index

\* C19: insert(h, v) with an entry of the same raw index present returns
\* Some(old value) and leaves len() and the dense order as they were;
\* otherwise it returns None and appends (h, v) at dense position len().
C19_InsertResult ==
    [][last'.op = "insert" =>
          LET i == last'.key
              at == {p \in 1 .. Len(entries) : entries[p].h.index = i.index}
          IN  IF at # {}
              THEN /\ \E p \in at : last'.ret = Some(entries[p].v)
                   /\ Len(entries') = Len(entries)
                   /\ \A p \in 1 .. Len(entries) : entries'[p].h = entries[p].h
              ELSE /\ last'.ret = None
                   /\ entries' = Append(entries, [h |-> i, v |-> last'.arg])]_vars

C19_Witness ==
    /\ last.op = "insert" /\ last.ret.some
    /\ Len(entries) = 2
    /\ entries[2].h.index = last.key.index
    /\ entries[2].v = last.arg /\ last.ret.val # last.arg

SetHolds(h) == \E p \in 1 .. Len(entries) : entries[p].h = h

\* C20: get, get_mut and remove succeed for h exactly when the dense array
\* holds an entry whose handle equals h in index and generation; otherwise
\* they return None and remove leaves the set as it was.
C20_LookupValidation ==
    \A h \in SetKeys :
        LET r == set_remove(Set, h) IN
        /\ sget(h).some <=> SetHolds(h)
        /\ sget_mut(h).some <=> SetHolds(h)
        /\ r.ret.some <=> SetHolds(h)
        /\ ~SetHolds(h) => (r.sparse = sparse /\ r.entries = entries)
        /\ SetHolds(h) => \E p \in 1 .. Len(entries) :
                             entries[p].h = h /\ sget(h) = Some(entries[p].v)

C20_Witness ==
    /\ last.op = "remove" /\ last.ret = None
    /\ Len(sparse) <= MaxKey
    /\ \E k \in 1 .. Len(sparse) : sparse[k] = UsizeMax
    /\ \E p \in 1 .. Len(entries) :
          /\ entries[p].h.index = last.key.index
          /\ entries[p].h.generation # last.key.generation

\* C21: retain(f) passes every entry present at the start to f exactly once,
\* the entries a swap-remove moved into the current position included;
\* afterwards the set holds exactly the entries f kept, with the values f
\* left, each readable by its handle, and len() is their number.
C21_SetRetainKeepsExactly ==
    [][\A keep \in SUBSET EntryKeys, mut \in 0 .. NumValues :
          (last'.op = "retain" /\ SRetain(keep, mut)) =>
              /\ crashed' = "no"
              /\ Len(last'.fcalls) = Len(entries)
              /\ Range(last'.fcalls) = {entries[p].h : p \in 1 .. Len(entries)}
              /\ Range(entries') = {[h |-> entries[p].h, v |-> f_write(mut, entries[p].v)] :
                                      p \in {q \in 1 .. Len(entries) :
                                               f_keep(keep, entries[q].h)}}
              /\ \A h \in SetKeys : sget(h)' =
                    IF \E p \in 1 .. Len(entries) : entries[p].h = h /\ f_keep(keep, h)
                    THEN Some(f_write(mut, (CHOOSE e \in Range(entries) : e.h = h).v))
                    ELSE None
              /\ Len(entries') = Cardinality(keep)]_vars

C21_Witness ==
    /\ last.op = "retain"
    /\ Len(last.fcalls) = 3
    /\ Len(entries) = 1
    /\ entries[1].h = last.fcalls[3]
    /\ entries[1].h.index < last.fcalls[2].index

\* the dense position of the entry of handle h in the sequence en
DensePos(en, h) == CHOOSE p \in 1 .. Len(en) : en[p].h = h

\* C22: after sort_by(cmp) the dense array is a permutation of the previous
\* entries in cmp order, entries that compare equal in their previous
\* relative order; every entry's sparse cell is its new dense position and
\* get(&h) is what it was for every handle.
C22_SortStable ==
    [][\A compare \in {"value", "index"} :
          (last'.op = "sort_by" /\ SSortBy(compare)) =>
              /\ Len(entries') = Len(entries)
              /\ Range(entries') = Range(entries)
              /\ \A a, b \in 1 .. Len(entries') : a < b =>
                    /\ sort_key(compare, entries'[a]) <= sort_key(compare, entries'[b])
                    /\ sort_key(compare, entries'[a]) = sort_key(compare, entries'[b]) =>
                          DensePos(entries, entries'[a].h) < DensePos(entries, entries'[b].h)
              /\ \A p \in 1 .. Len(entries') : sparse'[entries'[p].h.index + 1] = p - 1
              /\ \A h \in SetKeys : sget(h)' = sget(h)]_vars

C22_Witness ==
    /\ last.op = "sort_by"
    /\ Len(entries) = 3
    /\ entries[1].v = entries[2].v /\ entries[2].v < entries[3].v
    /\ entries[1].h.index > entries[2].h.index
    /\ entries[3].h.index < entries[1].h.index

\* ---------------------------------------------------------------- handle encodings
\* A u32 or u64 is an integer; an f64 is the integer number of halves it holds,
\* so 2.5 is 5. An IndexPair is a record, an IndexU64 the u64 it wraps, an
\* IndexF64 and a NewTypeIndex<T, IndexF64> the f64 they wrap.
U32Mod == 2 ^ U32Bits

U32Max == U32Mod - 1

U64Mod == U32Mod * U32Mod

\* number of significant bits of an f64: 2^F64Mantissa - 1 is MAX_SAFE_VALUE
F64Mantissa == U32Bits + SafeGenerationBits

MAX_SAFE_GENERATION == 2 ^ SafeGenerationBits - 1

MAX_SAFE_VALUE == 2 ^ F64Mantissa - 1

\* the f64 nearest to h halves, ties to the even significand
round_f64(h) ==
    IF h < 2 ^ F64Mantissa THEN h
    ELSE LET e == CHOOSE k \in 1 .. (2 * U32Bits + 2) :
                      2 ^ (F64Mantissa + k - 1) <= h /\ h < 2 ^ (F64Mantissa + k)
             q == 2 ^ e
             lo == (h \div q) * q
             r == h - lo
         IN  IF 2 * r < q THEN lo
             ELSE IF 2 * r > q THEN lo + q
             ELSE IF (lo \div q) % 2 = 0 THEN lo ELSE lo + q

\* `n as f64` of an integer n
as_f64(n) == round_f64(2 * n)

\* `x as u64` of a non-negative f64: the fraction is dropped
as_u64(x) == x \div 2

\* `n as u32` of a u64
as_u32(n) == n % U32Mod

f64_add(x, y) == round_f64(x + y)

HandleTypes == {"IndexPair", "IndexU64", "IndexF64", "NewTypeIndex"}

HandleType(enc) == [coll |-> enc, index_max |-> U32Max]

IndexU64_from_raw_parts(index, generation) ==
    (index + ((generation * U32Mod) % U64Mod)) % U64Mod

IndexU64_index(x) == as_u32(x % U32Mod)

IndexU64_generation(x) == as_u32(x \div U32Mod)

IndexU64_partial_cmp(a, b) ==
    IF a = b THEN "Equal"
    ELSE IF IndexU64_index(a) = IndexU64_index(b) THEN "None"
    ELSE IF IndexU64_index(a) < IndexU64_index(b) THEN "Less" ELSE "Greater"

IndexF64_from_raw_parts(index, generation) ==
    f64_add(as_f64(index),
            as_f64(((generation % (MAX_SAFE_GENERATION + 1)) * U32Mod) % U64Mod))

IndexF64_index(x) == as_u32(as_u64(x) % U32Mod)

IndexF64_generation_unshifted(x) == as_u32(as_u64(x))

IndexF64_generation(x) == as_u32(as_u64(x) \div U32Mod)

\* From<f64> for IndexF64
IndexF64_from(value) == as_f64(as_u64(value) % (MAX_SAFE_VALUE + 1))

IndexF64_partial_cmp(a, b) ==
    IF a = b THEN "Equal"
    ELSE IF IndexF64_index(a) = IndexF64_index(b) THEN "None"
    ELSE IF IndexF64_index(a) < IndexF64_index(b) THEN "Less" ELSE "Greater"

IndexPair_partial_cmp(a, b) ==
    IF a.index = b.index
    THEN IF a.generation = b.generation THEN "Equal" ELSE "None"
    ELSE IF a.index < b.index THEN "Less" ELSE "Greater"

\* the operations of GenIndex, PartialEq and PartialOrd by handle type
h_max_generation(enc) ==
    CASE enc = "IndexPair" -> MaxGeneration
      [] enc = "IndexU64" -> U32Max
      [] OTHER -> MAX_SAFE_GENERATION

h_from_raw_parts(enc, index, generation) ==
    CASE enc = "IndexPair" -> from_raw_parts(index, generation)
      [] enc = "IndexU64" -> IndexU64_from_raw_parts(index, generation)
      [] OTHER -> IndexF64_from_raw_parts(index, generation)

h_index(enc, x) ==
    CASE enc = "IndexPair" -> x.index
      [] enc = "IndexU64" -> IndexU64_index(x)
      [] OTHER -> IndexF64_index(x)

h_generation(enc, x) ==
    CASE enc = "IndexPair" -> x.generation
      [] enc = "IndexU64" -> IndexU64_generation(x)
      [] OTHER -> IndexF64_generation(x)

h_eq(enc, a, b) == a = b

h_partial_cmp(enc, a, b) ==
    CASE enc = "IndexPair" -> IndexPair_partial_cmp(a, b)
      [] enc = "IndexU64" -> IndexU64_partial_cmp(a, b)
      [] OTHER -> IndexF64_partial_cmp(a, b)

next_gen(enc, gen) ==
    IF gen = h_max_generation(enc) THEN 1 ELSE gen + 1

\* largest value of the generation type
generation_max(enc) == IF enc = "IndexPair" THEN MaxGeneration ELSE U32Max

\* gen + one() overflows the generation type: a panic with overflow checks,
\* a wrap without them
next_gen_overflows(enc, gen) ==
    gen # h_max_generation(enc) /\ gen = generation_max(enc)

h_next_generation(enc, x) ==
    h_from_raw_parts(enc, h_index(enc, x),
                     next_gen(enc, h_generation(enc, x)) % (generation_max(enc) + 1))

\* the f64 values a deserializer can produce, up to the largest u64 of the model
F64s == {h \in 0 .. 2 * (U64Mod - 1) : round_f64(h) = h}

U64s == 0 .. (U64Mod - 1)

Parts(enc, x) == from_raw_parts(h_index(enc, x), h_generation(enc, x))

HOwned == crashed = "no" /\ tparams.coll \in HandleTypes

Built(op, key, x) ==
    /\ hpair' = [a |-> hpair.b, b |-> x]
    /\ last' = Call(op, key, Some(x))
    /\ UNCHANGED <<mapvars, clientvars, setvars, iter, calls, crashed, tparams, vecmap, genvars>>

\* the generation field of from_raw_parts is of the generation type
GenerationsOf(enc) == 0 .. generation_max(enc)

HFromRawParts(index, generation) ==
    /\ HOwned
    /\ generation \in GenerationsOf(tparams.coll)
    /\ Built("from_raw_parts", from_raw_parts(index, generation),
             h_from_raw_parts(tparams.coll, index, generation))

\* From<u64> for IndexU64, From<f64> for IndexF64
HFrom(value) ==
    /\ HOwned
    /\ \/ /\ tparams.coll = "IndexU64"
          /\ value \in U64s
          /\ Built("from", null, value)
       \/ /\ tparams.coll = "IndexF64"
          /\ Built("from", null, IndexF64_from(value))

\* the derived Deserialize of the newtypes wraps the number read
HDeserialize(value) ==
    /\ HOwned
    /\ \/ /\ tparams.coll = "IndexU64"
          /\ value \in U64s
       \/ /\ tparams.coll \in {"IndexF64", "NewTypeIndex"}
    /\ Built("deserialize", null, value)

HNextGeneration ==
    /\ HOwned
    /\ \/ Built("next_generation", Parts(tparams.coll, hpair.b),
                h_next_generation(tparams.coll, hpair.b))
       \/ /\ next_gen_overflows(tparams.coll, h_generation(tparams.coll, hpair.b))
          /\ crashed' = "panic"
          /\ last' = Call("next_generation", Parts(tparams.coll, hpair.b), None)
          /\ UNCHANGED <<mapvars, clientvars, setvars, iter, calls, tparams, restvars>>

HCompare ==
    /\ HOwned
    /\ last' = Call("partial_cmp", null,
                    Some([eq |-> h_eq(tparams.coll, hpair.a, hpair.b),
                          cmp |-> h_partial_cmp(tparams.coll, hpair.a, hpair.b)]))
    /\ UNCHANGED <<mapvars, clientvars, setvars, iter, calls, crashed, tparams, restvars>>

InitHandle == \E enc \in HandleTypes : New(HandleType(enc))

NextHandle ==
    \/ \E index \in 0 .. U32Max, generation \in 0 .. U32Max :
           HFromRawParts(index, generation)
    \/ \E value \in F64s : HFrom(value)
    \/ \E value \in F64s : HDeserialize(value)
    \/ HNextGeneration
    \/ HCompare

SpecHandle == InitHandle /\ [][NextHandle]_vars

\* C23: from_raw_parts(i, g) gives back index i and generation g, for every
\* (i, g) of IndexPair and IndexU64 and, for IndexF64 (also inside a
\* NewTypeIndex), every g up to max_generation(); the f64 never exceeds
\* MAX_SAFE_VALUE.
C23_RoundTrip ==
    (last.op = "from_raw_parts"
        /\ (tparams.coll \in {"IndexF64", "NewTypeIndex"} =>
                last.key.generation <= h_max_generation(tparams.coll))) =>
        /\ h_index(tparams.coll, last.ret.val) = last.key.index
        /\ h_generation(tparams.coll, last.ret.val) = last.key.generation
        /\ tparams.coll \in {"IndexF64", "NewTypeIndex"} =>
               last.ret.val <= 2 * MAX_SAFE_VALUE

C23_Witness ==
    /\ last.op = "from_raw_parts"
    /\ tparams.coll = "IndexF64"
    /\ last.key = from_raw_parts(U32Max, MAX_SAFE_GENERATION)
    /\ last.ret.val = 2 * MAX_SAFE_VALUE

\* C24: after comparing handles a and b of any type: a == b iff index and
\* generation both match; a < b iff a.index() < b.index(); with equal index
\* and different generations partial_cmp is None and a != b.
C24_EqAndPartialOrder ==
    last.op = "partial_cmp" =>
        LET enc == tparams.coll
            a == Parts(enc, hpair.a)
            b == Parts(enc, hpair.b)
        IN  /\ last.ret.val.eq <=> a = b
            /\ (last.ret.val.cmp = "Less") <=> a.index < b.index
            /\ (last.ret.val.cmp = "Greater") <=> a.index > b.index
            /\ (last.ret.val.cmp = "Equal") <=> a = b
            /\ (a.index = b.index /\ a.generation # b.generation) =>
                   (last.ret.val.cmp = "None" /\ ~last.ret.val.eq)

\* C25: next_generation keeps the index, adds one to a generation below
\* max_generation() and wraps max_generation() to one; the new generation is
\* within 0 .. max_generation() and differs from the old one unless
\* max_generation() is one.
C25_NextGeneration ==
    last.op = "next_generation" =>
        /\ last.ret.some
        /\ LET enc == tparams.coll
            max == h_max_generation(enc)
            old == last.key
            new == Parts(enc, last.ret.val)
           IN  /\ new.index = old.index
               /\ old.generation # max => new.generation = old.generation + 1
               /\ old.generation = max => new.generation = 1
               /\ new.generation \in 0 .. max
               /\ max # 1 => new.generation # old.generation

\* ---------------------------------------------------------------- MapInsert for PagedSlotMap
Insert(key, value) ==
    LET dest == get_mut(key) IN
    /\ Owned
    /\ calls' = calls + 1
    /\ UNCHANGED <<iter, tparams, restvars, setvars, crashed>>
    /\ IF dest.some
       THEN /\ values' = write_value(values, key.index, value)
            /\ last' = [Call("insert", key, Some(dest.val)) EXCEPT !.arg = value]
            /\ live' = IF H(key) \in HKeys /\ live[H(key)] # 0
                       THEN [live EXCEPT ![H(key)] = value] ELSE live
            /\ UNCHANGED <<indices, free_list_head, free_list_tail, free_list_size,
                           removed, deadGen, fifo, fifoOk>>
       ELSE /\ last' = [Call("insert", key, None) EXCEPT !.arg = value]
            /\ UNCHANGED <<mapvars, clientvars>>

NextInsert ==
    \/ \E value \in Values : Push(value)
    \/ \E key \in Keys : Remove(key)
    \/ \E keep \in SUBSET LiveLooking : Retain(keep, 0)
    \/ Clear
    \/ \E key \in Keys, value \in Values : Insert(key, value)

SpecInsert == Init /\ [][NextInsert]_vars

\* ---------------------------------------------------------------- serde of PagedSlotMap
\* The serialized form is [ix, ov]: the indices and one Option<T> per
\* position, 0 for None.
Serialize ==
    [ix |-> indices,
     ov |-> [k \in 1 .. Len(indices) |->
                IF usize_eq(k - 1, indices[k].index)
                THEN get_value_unchecked(values, k - 1) ELSE 0]]

Min(a, b) == IF a < b THEN a ELSE b

\* the rebuild loop from position i on; st holds the locals of deserialize
RECURSIVE rebuild(_, _, _)
rebuild(i, st, ov) ==
    IF i >= Min(Len(st.indices), Len(ov)) \/ st.err THEN st
    ELSE LET gen_index == At(st.indices, i)
             idx == gen_index.index
             offset == idx % N
             st1 == IF idx > 0 /\ offset = 0
                    THEN [st EXCEPT !.values = Append(st.values, st.page),
                                    !.page = new_page]
                    ELSE st
             value == ov[i + 1]
             link == into_index(IF i = st1.free_list_head THEN 0
                                ELSE st1.free_list_head)
         IN  IF value # 0 /\ i = idx
             THEN rebuild(i + 1, [st1 EXCEPT !.page[offset + 1] = value], ov)
             ELSE IF ~link.some
             THEN [st1 EXCEPT !.err = TRUE]
             ELSE rebuild(i + 1,
                          [st1 EXCEPT
                              !.indices = SetAt(st1.indices, i,
                                                from_raw_parts(link.val, gen_index.generation)),
                              !.free_list_head = idx,
                              !.free_list_tail = IF st1.free_list_size = 0 THEN idx
                                                 ELSE st1.free_list_tail,
                              !.free_list_size = st1.free_list_size + 1],
                          ov)

\* the locals of deserialize before the loop
rebuild_start(input) ==
    [indices |-> input.ix, values |-> <<>>, page |-> new_page,
     free_list_head |-> Len(input.ix), free_list_tail |-> Len(input.ix),
     free_list_size |-> 0, err |-> FALSE]

\* Result<PagedSlotMap, D::Error>: Some(map) is Ok(map), None is Err
rebuild_finish(st) ==
    IF st.err THEN None
    ELSE Some([indices |-> st.indices,
               values |-> IF Len(st.indices) > 0 THEN Append(st.values, st.page)
                          ELSE st.values,
               free_list_head |-> st.free_list_head,
               free_list_tail |-> st.free_list_tail,
               free_list_size |-> st.free_list_size])

\* some position holds a value while its handle names another position
Mismatch(input) ==
    \E i \in 0 .. Min(Len(input.ix), Len(input.ov)) - 1 :
        input.ov[i + 1] # 0 /\ At(input.ix, i).index # i

deserialize_rejecting(input) ==
    IF Mismatch(input) THEN None
    ELSE rebuild_finish(rebuild(0, rebuild_start(input), input.ov))

deserialize(input) == rebuild_finish(rebuild(0, rebuild_start(input), input.ov))

\* serde_json::from_value(serde_json::to_value(&map)): the map is only read
RoundTrip ==
    /\ Owned
    /\ calls' = calls + 1
    /\ last' = [Call("round_trip", null, deserialize(Serialize)) EXCEPT !.arg = Serialize]
    /\ UNCHANGED <<mapvars, clientvars, iter, crashed, tparams, restvars, setvars>>

\* handles of the index type
SerdeHandles == {from_raw_parts(i, g) : i \in 0 .. Min(MaxSlots, tparams.index_max),
                                        g \in {1, MaxGeneration}}

\* inputs of up to MaxSlots positions, an Option<T> for each
SerdeInputs == UNION {{[ix |-> ix, ov |-> ov] :
                          ix \in [1 .. k -> SerdeHandles],
                          ov \in [1 .. k -> {0, 1, NumValues}]} : k \in 0 .. MaxSlots}

\* Deserialize::deserialize of any input of the right shape, by a program
\* that has no map yet
Deserialize(input) ==
    /\ Owned
    /\ calls = 0
    /\ calls' = calls + 1
    /\ last' = [Call("deserialize", null, deserialize(input)) EXCEPT !.arg = input]
    /\ UNCHANGED <<mapvars, clientvars, iter, crashed, tparams, restvars, setvars>>

InitSerde == New(PagedSlotMapOf(IndexMax)) \/ New(PagedSlotMapOf(NarrowIndexMax))

NextSerde ==
    \/ \E value \in Values : Push(value)
    \/ \E key \in Keys : Remove(key)
    \/ Clear
    \/ RoundTrip
    \/ (calls = 0 /\ \E input \in SerdeInputs : Deserialize(input))

SpecSerde == InitSerde /\ [][NextSerde]_vars


\* ---------------------------------------------------------------- serde of SparseSet
\* the serialized form is the dense sequence of entries
SetInputs == UNION {[1 .. k -> {[h |-> h, v |-> v] : h \in SetKeys, v \in Values}] :
                       k \in 0 .. SparseCap}

\* iter_entries().max().unwrap_or(0)
max_index(input) ==
    IF input = <<>> THEN 0
    ELSE CHOOSE m \in {input[p].h.index : p \in 1 .. Len(input)} :
             \A p \in 1 .. Len(input) : input[p].h.index <= m

\* the capacity of an empty Vec after reserve(additional): none is allocated
\* for zero, and at least additional otherwise
reserved(additional) ==
    IF additional = 0 THEN {0} ELSE additional .. SparseCap

\* the loop over iter_entries().enumerate() from entry i on; a write past the
\* end of sparse leaves the vector as it is and is recorded in oob
RECURSIVE fill_sparse(_, _, _)
fill_sparse(i, st, input) ==
    IF i >= Len(input) THEN st
    ELSE LET sparse_index == input[i + 1].h.index IN
         IF sparse_index < Len(st.sparse)
         THEN fill_sparse(i + 1, [st EXCEPT !.sparse[sparse_index + 1] = i], input)
         ELSE fill_sparse(i + 1, [st EXCEPT !.oob = TRUE], input)

\* Deserialize::deserialize by a program that has no set yet.  A write past
\* the end of sparse is undefined: the process faults, or it goes on and the
\* cell is not part of the vector.
SDeserialize(input) ==
    /\ SetOwned
    /\ last.op = "new"
    /\ \E capacity \in reserved(max_index(input)) :
       \E uninit \in [1 .. capacity -> Garbage] :
          LET st == fill_sparse(0, [sparse |-> uninit, oob |-> FALSE], input) IN
          \/ /\ st.oob
             /\ crashed' = "abort"
             /\ last' = [Call("deserialize", null, None) EXCEPT !.arg = input]
             /\ UNCHANGED setvars
          \/ /\ sparse' = st.sparse
             /\ entries' = input
             /\ last' = [Call("deserialize", null, Some(Len(input))) EXCEPT !.arg = input]
             /\ UNCHANGED crashed
    /\ UNCHANGED <<mapvars, clientvars, iter, calls, tparams, restvars>>

NextSetSerde ==
    \/ \E input \in SetInputs : SDeserialize(input)
    \/ \E i \in SetKeys : SRemove(i)
    \/ SClear

SpecSetSerde == InitSet /\ [][NextSetSerde]_vars


\* ---------------------------------------------------------------- VecMap
\* items is a sequence of Option<T>, 0 for None; the keys are usize
VecMapOf == [coll |-> "VecMap", index_max |-> IndexMax]

VecKeys == 0 .. MaxKey

VOwned == Running /\ tparams.coll = "VecMap"

VCall(op, i, ret) == Call(op, from_raw_parts(i, 0), ret)

vec_get(i) ==
    IF i < Len(vecmap.items) /\ vecmap.items[i + 1] # 0
    THEN Some(vecmap.items[i + 1]) ELSE None

\* Vec::resize_with(new_len, || None), called with new_len > len
resize_with(items, new_len) ==
    items \o [k \in 1 .. (new_len - Len(items)) |-> 0]

VInsert(i, v) ==
    LET old == vec_get(i)
        items1 == IF i >= Len(vecmap.items) THEN resize_with(vecmap.items, i + 1)
                  ELSE vecmap.items
    IN  /\ VOwned
        /\ calls' = calls + 1
        /\ vecmap' = [items |-> IF old.some THEN [vecmap.items EXCEPT ![i + 1] = v]
                                ELSE [items1 EXCEPT ![i + 1] = v],
                      len |-> wrapping_add(vecmap.len, 1)]
        /\ last' = [VCall("insert", i, old) EXCEPT !.arg = v]
        /\ UNCHANGED <<mapvars, clientvars, setvars, iter, crashed, tparams, hpair, genvars>>

VRemove(i) ==
    LET old == vec_get(i) IN
    /\ VOwned
    /\ calls' = calls + 1
    /\ vecmap' = IF old.some
                 THEN [items |-> [vecmap.items EXCEPT ![i + 1] = 0],
                       len |-> wrapping_sub(vecmap.len, 1)]
                 ELSE vecmap
    /\ last' = VCall("remove", i, old)
    /\ UNCHANGED <<mapvars, clientvars, setvars, iter, crashed, tparams, hpair, genvars>>

\* f(i, v) keeps the keys in keep and writes mut to the value when mut # 0
VRetain(keep, mut) ==
    LET gone == {k \in 1 .. Len(vecmap.items) :
                    vecmap.items[k] # 0 /\ (k - 1) \notin keep}
    IN  /\ VOwned
        /\ calls' = calls + 1
        /\ vecmap' = [items |-> [k \in 1 .. Len(vecmap.items) |->
                                    IF vecmap.items[k] = 0 \/ k \in gone THEN 0
                                    ELSE f_write(mut, vecmap.items[k])],
                      len |-> wrapping_sub(vecmap.len, Cardinality(gone))]
        /\ last' = [VCall("retain", 0, None) EXCEPT !.arg = mut]
        /\ UNCHANGED <<mapvars, clientvars, setvars, iter, crashed, tparams, hpair, genvars>>

VClear ==
    /\ VOwned
    /\ calls' = calls + 1
    /\ vecmap' = [items |-> <<>>, len |-> 0]
    /\ last' = VCall("clear", 0, None)
    /\ UNCHANGED <<mapvars, clientvars, setvars, iter, crashed, tparams, hpair, genvars>>

\* the pairs iter() yields
vec_iter == {<<k - 1, vecmap.items[k]>> : k \in {j \in 1 .. Len(vecmap.items) :
                                                   vecmap.items[j] # 0}}

InitVec == New(VecMapOf)

NextVec ==
    \/ \E i \in VecKeys, v \in Values : VInsert(i, v)
    \/ \E i \in VecKeys : VRemove(i)
    \/ \E keep \in SUBSET VecKeys, mut \in 0 .. NumValues : VRetain(keep, mut)
    \/ VClear

SpecVec == InitVec /\ [][NextVec]_vars

\* ---------------------------------------------------------------- Clone, PartialEq
Self == [indices |-> indices, values |-> values,
         free_list_head |-> free_list_head, free_list_tail |-> free_list_tail,
         free_list_size |-> free_list_size]

\* the positions whose value clone and eq read: the stored index is the position
LivePositions(m) == {i \in 0 .. Len(m.indices) - 1 : usize_eq(i, At(m.indices, i).index)}

\* assume_init_ref is called on a cell that holds no initialized value, or on
\* memory outside the pages
ReadsUninit(m) ==
    \E i \in LivePositions(m) :
        ~InPages(m.values, i) \/ get_value_unchecked(m.values, i) = Uninit

\* the value read at position i; garbage is what reading a cell without an
\* initialized value gives (Uninit for the very bits of the cell)
read_cell(m, i, garbage) ==
    IF InPages(m.values, i) /\ get_value_unchecked(m.values, i) # Uninit
    THEN get_value_unchecked(m.values, i)
    ELSE garbage

clone(m, garbage) ==
    [indices |-> m.indices,
     values |-> [p \in 1 .. ((Len(m.indices) + N - 1) \div N) |->
                   [k \in 1 .. N |->
                      LET i == (p - 1) * N + (k - 1) IN
                      IF i \in LivePositions(m) THEN read_cell(m, i, garbage)
                      ELSE Uninit]],
     free_list_head |-> m.free_list_head,
     free_list_tail |-> m.free_list_tail,
     free_list_size |-> m.free_list_size]

eq(a, b) ==
    /\ a.indices = b.indices
    /\ a.free_list_head = b.free_list_head
    /\ a.free_list_tail = b.free_list_tail
    /\ a.free_list_size = b.free_list_size
    /\ \A i \in LivePositions(a) : read_cell(a, i, Uninit) = read_cell(b, i, Uninit)

\* map.clone(): the map is only read. Cloning a value that is not initialized
\* is undefined: the process dies, or the clone holds whatever was read
Clone ==
    /\ Owned
    /\ calls' = calls + 1
    /\ \/ /\ ~ReadsUninit(Self)
          /\ last' = Call("clone", null, Some(clone(Self, Uninit)))
          /\ UNCHANGED crashed
       \/ /\ ReadsUninit(Self)
          /\ \E garbage \in Values \union {Uninit} :
                last' = Call("clone", null, Some(clone(Self, garbage)))
          /\ UNCHANGED crashed
       \/ /\ ReadsUninit(Self)
          /\ last' = Call("clone", null, None)
          /\ crashed' = "abort"
    /\ UNCHANGED <<mapvars, clientvars, iter, tparams, restvars, setvars>>

NextClone ==
    \/ \E value \in Values : Push(value)
    \/ \E key \in Keys : Remove(key)
    \/ \E keep \in SUBSET LiveLooking : Retain(keep, 0)
    \/ Clear
    \/ Clone

SpecClone == Init /\ [][NextClone]_vars

\* ---------------------------------------------------------------- GenIndexMap
\* GenIndexMap<T, IndexPair, VecMap<(I, T)>>: the backing VecMap m = [items, len]
\* holds Option<(I, T)>, Some([h, v]) for the pair (handle, value)
GenIndexMapOf == [coll |-> "GenIndexMap", index_max |-> MaxKey]

GOwned == Running /\ tparams.coll = "GenIndexMap"

VecMap_get(m, i) == IF i < Len(m.items) THEN m.items[i + 1] ELSE None

VecMap_insert(m, i, x) ==
    LET old == VecMap_get(m, i)
        items1 == IF i >= Len(m.items)
                  THEN m.items \o [k \in 1 .. (i + 1 - Len(m.items)) |-> None]
                  ELSE m.items
    IN  [map |-> [items |-> [items1 EXCEPT ![i + 1] = Some(x)],
                  len |-> wrapping_add(m.len, 1)],
         ret |-> old]

VecMap_remove(m, i) ==
    LET old == VecMap_get(m, i) IN
    IF old.some
    THEN [map |-> [items |-> [m.items EXCEPT ![i + 1] = None],
                   len |-> wrapping_sub(m.len, 1)],
          ret |-> old]
    ELSE [map |-> m, ret |-> None]

\* f is called with the pair stored at every position that holds one
VecMap_retain(m, keep, mut) ==
    LET gone == {k \in 1 .. Len(m.items) :
                    m.items[k].some /\ ~f_keep(keep, m.items[k].val.h)}
    IN  [map |-> [items |-> [k \in 1 .. Len(m.items) |->
                                IF ~m.items[k].some \/ k \in gone THEN None
                                ELSE Some([h |-> m.items[k].val.h,
                                           v |-> f_write(mut, m.items[k].val.v)])],
                  len |-> wrapping_sub(m.len, Cardinality(gone))],
         ret |-> None]

\* usize to usize never fails
index_of(i) == Some(i.index)

\* a lookup that compares the raw index only
GenIndexMap_get_by_index(m, key) ==
    LET o == VecMap_get(m, index_of(key).val) IN
    IF o.some /\ o.val.h.index = key.index THEN Some(o.val.v) ELSE None

GenIndexMap_get(m, key) ==
    LET o == VecMap_get(m, index_of(key).val) IN
    IF o.some /\ o.val.h = key THEN Some(o.val.v) ELSE None

GenIndexMap_remove(m, key) ==
    IF GenIndexMap_get(m, key).some
    THEN LET r == VecMap_remove(m, index_of(key).val) IN
         [map |-> r.map, ret |-> Some(r.ret.val.v)]
    ELSE [map |-> m, ret |-> None]

GenIndexMap_insert(m, key, value) ==
    LET r == VecMap_insert(m, index_of(key).val, [h |-> key, v |-> value]) IN
    [map |-> r.map, ret |-> IF r.ret.some THEN Some(r.ret.val.v) ELSE None]

GenIndexMap_retain(m, keep, mut) == VecMap_retain(m, keep, mut)

\* one call on the GenIndexMap: r = [map, ret] is what it leaves and returns
GDo(op, key, r, arg) ==
    /\ gimap' = r.map
    /\ glast' = [Call(op, key, r.ret) EXCEPT !.arg = arg]
    /\ calls' = calls + 1

GFrame == UNCHANGED <<mapvars, clientvars, setvars, iter, crashed, tparams,
                      hpair, vecmap, anymap, cleared>>

GInsert(key, value) ==
    /\ GOwned
    /\ GDo("insert", key, GenIndexMap_insert(gimap, key, value), value)
    /\ GFrame
    /\ UNCHANGED last

GGet(key) ==
    /\ GOwned
    /\ GDo("get", key, [map |-> gimap, ret |-> GenIndexMap_get(gimap, key)], 0)
    /\ GFrame
    /\ UNCHANGED last

GRemove(key) ==
    /\ GOwned
    /\ GDo("remove", key, GenIndexMap_remove(gimap, key), 0)
    /\ GFrame
    /\ UNCHANGED last

GKeys == {H(gimap.items[k].val.h) : k \in {j \in 1 .. Len(gimap.items) :
                                             gimap.items[j].some}}

GRetain(keep, mut) ==
    /\ GOwned
    /\ GDo("retain", null, GenIndexMap_retain(gimap, keep, mut), mut)
    /\ GFrame
    /\ UNCHANGED last

GLen ==
    /\ GOwned
    /\ GDo("len", null, [map |-> gimap, ret |-> Some(gimap.len)], 0)
    /\ GFrame
    /\ UNCHANGED last

GClear ==
    /\ GOwned
    /\ GDo("clear", null, [map |-> [items |-> <<>>, len |-> 0], ret |-> None], 0)
    /\ GFrame
    /\ UNCHANGED last

InitGen == New(GenIndexMapOf)

NextGen ==
    \/ \E key \in SetKeys, value \in Values : GInsert(key, value)
    \/ \E key \in SetKeys : GGet(key)
    \/ \E key \in SetKeys : GRemove(key)
    \/ \E keep \in SUBSET GKeys, mut \in 0 .. NumValues : GRetain(keep, mut)
    \/ GLen
    \/ GClear

SpecGen == InitGen /\ [][NextGen]_vars


\* ---------------------------------------------------------------- SparseSet and GenIndexMap
\* a SparseSet and a GenIndexMap over VecMap given the same calls: last is the
\* call as the SparseSet answered it, glast as the GenIndexMap did
PairOf == [coll |-> "SparseSet, GenIndexMap", index_max |-> MaxKey]

BOwned == Running /\ calls < MaxPairCalls /\ tparams.coll = PairOf.coll

BFrame == UNCHANGED <<mapvars, clientvars, iter, tparams, hpair, vecmap, anymap, cleared>>

BInsert(key, value) ==
    /\ BOwned
    /\ \/ SInsertReplace(key, value)
       \/ SInsertNew(key, value)
    /\ GDo("insert", key, GenIndexMap_insert(gimap, key, value), value)
    /\ UNCHANGED crashed
    /\ BFrame

BGet(key) ==
    /\ BOwned
    /\ last' = Call("get", key, sget(key))
    /\ GDo("get", key, [map |-> gimap, ret |-> GenIndexMap_get(gimap, key)], 0)
    /\ UNCHANGED <<setvars, crashed>>
    /\ BFrame

BRemove(key) ==
    LET r == set_remove(Set, key) IN
    /\ BOwned
    /\ sparse' = r.sparse
    /\ entries' = r.entries
    /\ last' = Call("remove", key, r.ret)
    /\ GDo("remove", key, GenIndexMap_remove(gimap, key), 0)
    /\ UNCHANGED crashed
    /\ BFrame

BRetain(keep, mut) ==
    LET s == set_retain_loop(0, Set @@ [hung |-> FALSE, calls |-> <<>>], keep, mut) IN
    /\ BOwned
    /\ sparse' = s.sparse
    /\ entries' = s.entries
    /\ crashed' = IF s.hung THEN "hang" ELSE crashed
    /\ last' = [Call("retain", null, None) EXCEPT !.fcalls = s.calls, !.arg = mut]
    /\ GDo("retain", null, GenIndexMap_retain(gimap, keep, mut), mut)
    /\ BFrame

BLen ==
    /\ BOwned
    /\ last' = Call("len", null, Some(Len(entries)))
    /\ GDo("len", null, [map |-> gimap, ret |-> Some(gimap.len)], 0)
    /\ UNCHANGED <<setvars, crashed>>
    /\ BFrame

InitPair == New(PairOf)

\* handles that share a raw index and differ in generation, on two raw indices
PairKeys == {from_raw_parts(i, g) : i \in 0 .. 1, g \in Generations}

NextPair ==
    \/ \E key \in PairKeys, value \in Values : BInsert(key, value)
    \/ \E key \in PairKeys : BGet(key)
    \/ \E key \in PairKeys : BRemove(key)
    \/ \E keep \in SUBSET (EntryKeys \union GKeys) : BRetain(keep, 0)
    \/ BLen

SpecPair == InitPair /\ [][NextPair]_vars

\* ---------------------------------------------------------------- AnyMap
\* AnyMap<dyn Any>: at most one value for each type. A type list C is a
\* sequence of [ty, mut]: &mut ty when mut, &ty otherwise; () is <<>>
AnyMapOf == [coll |-> "AnyMap", index_max |-> IndexMax]

AOwned == Running /\ tparams.coll = "AnyMap"

Requests == UNION {[1 .. k -> [ty : AnyTypes, mut : BOOLEAN]] : k \in 0 .. MaxRequest}

\* Self::Mut: the types of c requested as &mut, as a Cons
RECURSIVE Mut(_)
Mut(c) ==
    IF c = <<>> THEN <<>>
    ELSE IF Head(c).mut THEN <<Head(c).ty>> \o Mut(Tail(c))
    ELSE Mut(Tail(c))

\* <() as Cons>::Head is ()
RECURSIVE contains_type_id(_, _)
contains_type_id(c, type_id) ==
    IF Len(c) > 0 THEN contains_type_id(Tail(c), type_id)
    ELSE IF type_id = "unit" THEN TRUE
    ELSE FALSE

any_get(map, V) == IF map[V] # 0 THEN Some(map[V]) ELSE None

\* the references handed out, in the order of the type list
RECURSIVE multi_get_mut(_, _)
multi_get_mut(map, c) ==
    IF c = <<>> THEN Some(<<>>)
    ELSE LET V == Head(c).ty IN
         IF contains_type_id(Mut(Tail(c)), V) THEN None
         ELSE IF ~any_get(map, V).some THEN None
         ELSE LET rest == multi_get_mut(map, Tail(c)) IN
              IF rest.some THEN Some(<<Head(c)>> \o rest.val) ELSE None

AFrame == UNCHANGED <<mapvars, clientvars, setvars, iter, calls, crashed, tparams,
                      hpair, vecmap, gimap, glast, cleared>>

AInsert(V, value) ==
    /\ AOwned
    /\ anymap' = [anymap EXCEPT ![V] = value]
    /\ last' = [Call("insert", null, any_get(anymap, V)) EXCEPT !.arg = <<V, value>>]
    /\ AFrame

ARemove(V) ==
    /\ AOwned
    /\ anymap' = [anymap EXCEPT ![V] = 0]
    /\ last' = [Call("remove", null, any_get(anymap, V)) EXCEPT !.arg = <<V>>]
    /\ AFrame

AMultiGetMut(c) ==
    /\ AOwned
    /\ last' = [Call("multi_get_mut", null, multi_get_mut(anymap, c)) EXCEPT !.arg = c]
    /\ UNCHANGED anymap
    /\ AFrame

InitAny == New(AnyMapOf)

NextAny ==
    \/ \E V \in AnyTypes, value \in Values : AInsert(V, value)
    \/ \E V \in AnyTypes : ARemove(V)
    \/ \E c \in Requests : AMultiGetMut(c)

SpecAny == InitAny /\ [][NextAny]_vars

\* get of a map given as a record; a cell outside the pages reads as garbage
GetIn(m, key) ==
    LET idx == key.index IN
    IF idx < Len(m.indices) /\ At(m.indices, idx) = key
    THEN IF InPages(m.values, idx) THEN Some(get_value_unchecked(m.values, idx))
         ELSE Some(Uninit)
    ELSE None

DeadIn(m) == {p \in 0 .. Len(m.indices) - 1 : At(m.indices, p).index # p}

RECURSIVE Chain(_, _, _)
Chain(m, p, n) ==
    IF n = 0 \/ p >= Len(m.indices) THEN <<>>
    ELSE <<p>> \o Chain(m, At(m.indices, p).index, n - 1)

\* the free list as push and remove keep it: size counts the dead slots, the
\* links from head pass through each of them once and end at tail
FreeListOk(m) ==
    LET c == Chain(m, m.free_list_head, m.free_list_size) IN
    /\ m.free_list_size = Cardinality(DeadIn(m))
    /\ Len(c) = m.free_list_size
    /\ Range(c) = DeadIn(m)
    /\ m.free_list_size > 0 => c[Len(c)] = m.free_list_tail

\* C26: deserializing the serialized form of a map gives a map with the same
\* live handles and values, the same len() and a free list that is the one
\* push and remove would have built.
C26_SerdeRoundTrip ==
    last.op = "round_trip" =>
        /\ last.ret.some
        /\ \A key \in Keys : GetIn(last.ret.val, key) = get(key)
        /\ wrapping_sub(Len(last.ret.val.indices), last.ret.val.free_list_size) = len
        /\ FreeListOk(last.ret.val)

\* C27 as stated: an input in which a position holds a value while its handle
\* names another position is rejected with an error.
C27_MismatchRejected ==
    (last.op = "deserialize" /\ Mismatch(last.arg)) => ~last.ret.some

\* C27 amended: such an input is not rejected for the mismatch: the value is
\* dropped and the position is a free slot of the map returned; the error is
\* returned exactly when the number of positions does not fit the index type.
C27_MismatchDropped ==
    (last.op = "deserialize" /\ Mismatch(last.arg)) =>
        /\ last.ret.some <=> Len(last.arg.ix) <= tparams.index_max
        /\ last.ret.some =>
               /\ last.ret.val.free_list_size >= 1
               /\ \A i \in 0 .. Len(last.arg.ix) - 1 :
                      (last.arg.ov[i + 1] # 0 /\ At(last.arg.ix, i).index # i) =>
                          /\ i \in DeadIn(last.ret.val)
                          /\ \A key \in Keys : key.index = i => GetIn(last.ret.val, key) = None

C27_Witness ==
    /\ last.op = "deserialize"
    /\ Mismatch(last.arg)
    /\ last.ret.some
    /\ Len(last.arg.ix) = MaxSlots
    /\ last.arg.ov[1] # 0 /\ At(last.arg.ix, 0).index = 0
    /\ GetIn(last.ret.val, At(last.arg.ix, 0)) = Some(last.arg.ov[1])

C28_SetDeserialize ==
    (/\ last.op = "deserialize"
     /\ tparams.coll = "SparseSet"
     /\ \A p, q \in 1 .. Len(last.arg) :
            last.arg[p].h.index = last.arg[q].h.index => p = q) =>
        /\ crashed = "no"
        /\ last.arg # <<>> => Len(sparse) > max_index(last.arg)
        /\ \A p \in 1 .. Len(last.arg) : sget(last.arg[p].h) = Some(last.arg[p].v)

\* C30: VecMap::len() is the number of pairs iter() yields, after any calls
\* of insert, remove, retain and clear.
C30_VecLen == tparams.coll = "VecMap" => vecmap.len = Cardinality(vec_iter)

\* the pair the backing map of a GenIndexMap holds under the raw index of key
StoredAt(m, key) == VecMap_get(m, key.index)

\* C31: GenIndexMap: get and remove succeed only when the pair stored under the
\* raw index of the key carries a handle equal to the key, and then return its
\* value; remove with a handle of another generation returns None and leaves
\* the map as it was; insert over a pair with the same raw index returns the
\* old value and stores the new handle and value, so that get of the key gives
\* the new value and a different previous handle is no longer found
C31_GenIndexMap ==
    [][\A key \in SetKeys :
         (tparams.coll = "GenIndexMap" /\ glast'.key = key) =>
            LET old == StoredAt(gimap, key)
                new == StoredAt(gimap', key)
            IN  /\ (glast'.op \in {"get", "remove"} /\ glast'.ret.some) =>
                      /\ old.some
                      /\ old.val.h = key
                      /\ glast'.ret = Some(old.val.v)
                /\ (glast'.op = "remove" /\ old.some /\ old.val.h # key) =>
                      /\ ~glast'.ret.some
                      /\ gimap' = gimap
                /\ (glast'.op = "insert" /\ old.some) =>
                      /\ glast'.ret = Some(old.val.v)
                      /\ new = Some([h |-> key, v |-> glast'.arg])
                      /\ GenIndexMap_get(gimap', key) = Some(glast'.arg)
                      /\ old.val.h # key => ~GenIndexMap_get(gimap', old.val.h).some
      ]_vars

\* remove was called with a handle whose generation differs from the stored
\* one, and the pair is still there
C31_Witness ==
    /\ tparams.coll = "GenIndexMap"
    /\ glast.op = "remove"
    /\ ~glast.ret.some
    /\ StoredAt(gimap, glast.key).some
    /\ StoredAt(gimap, glast.key).val.h.generation # glast.key.generation

\* C32: the clone of a map is equal to the map under ==, has the same len()
\* and returns what the map returns for get of every handle
C32_CloneEq ==
    last.op = "clone" =>
        /\ last.ret.some
        /\ eq(Self, last.ret.val)
        /\ wrapping_sub(Len(last.ret.val.indices), last.ret.val.free_list_size) = len
        /\ \A key \in Keys : GetIn(last.ret.val, key) = get(key)

\* the number of pages that hold the positions below n
PagesFor(n) == (n + N - 1) \div N

\* C33: after every push, remove, retain and clear the number of pages is
\* ceil(indices.len() / N), so every position below indices.len() has a cell,
\* and the positions the unchecked accessors are called with (the free-list
\* head push reuses, the free-list tail remove links behind) are below
\* indices.len()
C33_PageAllocation ==
    [][/\ crashed' = "no" => Len(values') = PagesFor(Len(indices'))
       /\ (last'.op = "push" /\ free_list_size > 0) => free_list_head < Len(indices)
       /\ (last'.op = "remove" /\ last'.ret.some /\ free_list_size > 0) =>
             free_list_tail < Len(indices)]_vars

\* C34: only initialized storage is read: every slot that get, get_mut,
\* remove, retain, clone and serialization take for live (its stored index is
\* its position) holds a value written by push and not moved out or dropped
\* since, and so does every slot an iterator has yielded
C34_ReadsInitialized ==
    crashed = "no" =>
        /\ \A i \in LivePositions(Self) : read_cell(Self, i, Uninit) # Uninit
        /\ \A k \in 1 .. Len(iter.out) : iter.out[k].val # Uninit

\* C35: a handle issued before clear() returns None from get after the clear
\* and after every later push into the cleared map
C35_ClearedHandlesStale ==
    Alive => \A h \in cleared : ~get(h).some

\* the pairs an iterator has still to yield: the live-looking slots among the
\* positions its slice iterator has not consumed
StillToYield(it) ==
    {p \in it.front .. it.back - 1 : usize_eq(p, At(indices, p).index)}

\* C36: the counters of an iterator satisfy start <= end after every call,
\* len() = end - start is the number of pairs it has still to yield, whatever
\* the interleaving of next() and next_back(), and a next() that follows a
\* next() that returned None returns None
C36_IterLength ==
    [][(crashed' = "no" /\ iter' # NoIter) =>
          /\ iter'.start <= iter'.end
          /\ iter'.end - iter'.start = Cardinality(StillToYield(iter'))
          /\ (last.op = "next" /\ ~last.ret.some /\ last'.op = "next") =>
                ~last'.ret.some]_vars

is_null(x) == x = null

\* C37: push never returns the null handle: the handle it returns and the
\* handle stored in every live slot have generation >= 1 and are not null,
\* also when the generation of a reused slot has wrapped at max_generation
C37_NoNullHandle ==
    Alive =>
        /\ (last.op = "push" /\ last.ret.some) =>
              (last.key.generation >= 1 /\ ~is_null(last.key))
        /\ \A i \in LivePositions(Self) :
              At(indices, i).generation >= 1 /\ ~is_null(At(indices, i))

\* the fifth call is a push that reuses the only slot with generation 1: the
\* generation has wrapped
C37_Witness ==
    /\ Alive
    /\ last.op = "push"
    /\ ~last.grew
    /\ last.key = from_raw_parts(0, 1)
    /\ Len(indices) = 1
    /\ calls = 5

\* C38: a SparseSet and a GenIndexMap backed by a VecMap, given the same
\* insert, get, remove, retain and len calls with the same handles, return the
\* same result from every call
C38_SameResults ==
    (tparams.coll = PairOf.coll /\ Alive) =>
        (last.op = glast.op /\ last.key = glast.key /\ last.ret = glast.ret)

\* C39: retain returns for every predicate and every set: the remove of the
\* entry under the cursor always succeeds, so every call of the predicate
\* either moves the cursor on or shortens the dense array by one, and the
\* predicate is called as many times as there were entries at the start
C39_SetRetainTerminates ==
    [][\A keep \in SUBSET EntryKeys, mut \in 0 .. NumValues :
          (last'.op = "retain" /\ SRetain(keep, mut)) =>
              LET rejected == {k \in 1 .. Len(last'.fcalls) :
                                  ~f_keep(keep, last'.fcalls[k])}
              IN  /\ crashed' # "hang"
                  /\ Len(last'.fcalls) = Len(entries)
                  /\ Len(entries') = Len(entries) - Cardinality(rejected)]_vars

\* retain has rejected each of three entries: every call shortened the array
C39_Witness ==
    /\ tparams.coll = "SparseSet"
    /\ last.op = "retain"
    /\ crashed = "no"
    /\ Len(last.fcalls) = 3
    /\ Len(entries) = 0

\* a type of the list is requested as &mut and appears once more
Aliasing(c) ==
    \E a, b \in 1 .. Len(c) : a # b /\ c[a].ty = c[b].ty /\ c[a].mut

\* C40: multi_get_mut returns None for a type list in which a type is
\* requested as &mut and appears again, as & or as &mut: it never hands out
\* two references to one stored value when one of them is mutable
C40_NoAliasing ==
    (tparams.coll = "AnyMap" /\ last.op = "multi_get_mut" /\ Aliasing(last.arg)) =>
        ~last.ret.some

====
